---- MODULE Spec2Model ----
(***************************************************************************)
(* Model of scripts/update-map-events.js: the map-event rotation updater.  *)
(*                                                                         *)
(* JavaScript strings that the program transforms (field names, display   *)
(* names, slugs, hour keys) are sequences of one-character strings, so    *)
(* that trimming, lower-casing, pattern matching and slugification are    *)
(* computed character by character.  Location identifiers are never       *)
(* transformed and are kept as atoms.                                      *)
(***************************************************************************)
EXTENDS Integers, Sequences, FiniteSets, TLC

VARIABLES
    pc,                \* position of the running function
    name,              \* slugify: the argument
    slug,              \* slugify: the value returned
    fullRotation,      \* payload.fullRotation / buildSchedule's first argument
    eventTypes,        \* mapEvents.eventTypes, the local catalog
    remoteEventTypes,  \* payload.eventTypes
    result,            \* buildSchedule: completion (returned schedule or thrown error)
    next,              \* mergeEventLocalizations: the value returned
    response,          \* run: what fetch gave
    payload,           \* run: whether payload.fullRotation is an array
    error,             \* run: the error run() rejected with, "none" so far
    writes,            \* run: number of times the target file was written
    exitCode           \* run: process.exitCode

runVars == <<response, payload, error, writes, exitCode>>

vars == <<pc, name, slug, fullRotation, eventTypes, remoteEventTypes,
          result, next, runVars>>

\* A value a variable holds while the function that sets it has not run.
Unset == "unset"

\* The state of run() while it has not been started.
RunIdle ==
    /\ response = Unset /\ payload = Unset /\ error = "none"
    /\ writes = 0 /\ exitCode = 0

-----------------------------------------------------------------------------
(* Characters and strings                                                  *)

UpperSeq == <<"A","B","C","D","E","F","G","H","I","J","K","L","M",
              "N","O","P","Q","R","S","T","U","V","W","X","Y","Z">>
LowerSeq == <<"a","b","c","d","e","f","g","h","i","j","k","l","m",
              "n","o","p","q","r","s","t","u","v","w","x","y","z">>
DigitSeq == <<"0","1","2","3","4","5","6","7","8","9">>

Range(s) == { s[i] : i \in DOMAIN s }

UpperLetters == Range(UpperSeq)
LowerLetters == Range(LowerSeq)
Digits == Range(DigitSeq)
Whitespace == {" ", "\t", "\n"}

\* String.prototype.toLowerCase, on the ASCII range.
LowerChar(c) ==
    IF c \in UpperLetters
    THEN LowerSeq[CHOOSE i \in DOMAIN UpperSeq : UpperSeq[i] = c]
    ELSE c

ToLowerCase(s) == [i \in DOMAIN s |-> LowerChar(s[i])]

\* String.prototype.trim
RECURSIVE TrimStart(_)
TrimStart(s) ==
    IF s # <<>> /\ Head(s) \in Whitespace THEN TrimStart(Tail(s)) ELSE s

RECURSIVE TrimEnd(_)
TrimEnd(s) ==
    IF s # <<>> /\ s[Len(s)] \in Whitespace
    THEN TrimEnd(SubSeq(s, 1, Len(s) - 1))
    ELSE s

Trim(s) == TrimEnd(TrimStart(s))

-----------------------------------------------------------------------------
(* slugify                                                                 *)

\* .replace(/['"]/g, "")
IsQuote(c) == c \in {"'", "\""}
RemoveQuotes(s) == SelectSeq(s, LAMBDA c : ~IsQuote(c))

\* .replace(/[^a-z0-9]+/g, "-"): each maximal run of characters outside
\* [a-z0-9] becomes one hyphen.
IsSlugChar(c) == c \in LowerLetters \cup Digits

RECURSIVE ReplaceRuns(_, _)
ReplaceRuns(s, inRun) ==
    IF s = <<>> THEN <<>>
    ELSE IF IsSlugChar(Head(s)) THEN <<Head(s)>> \o ReplaceRuns(Tail(s), FALSE)
    ELSE IF inRun THEN ReplaceRuns(Tail(s), TRUE)
    ELSE <<"-">> \o ReplaceRuns(Tail(s), TRUE)

\* .replace(/^-+|-+$/g, "")
RECURSIVE StripLeadingHyphens(_)
StripLeadingHyphens(s) ==
    IF s # <<>> /\ Head(s) = "-" THEN StripLeadingHyphens(Tail(s)) ELSE s

RECURSIVE StripTrailingHyphens(_)
StripTrailingHyphens(s) ==
    IF s # <<>> /\ s[Len(s)] = "-"
    THEN StripTrailingHyphens(SubSeq(s, 1, Len(s) - 1))
    ELSE s

StripHyphens(s) == StripTrailingHyphens(StripLeadingHyphens(s))

\* A slugify that forgets to strip the trailing hyphens.
SlugifyNoTrailingStrip(n) ==
    StripLeadingHyphens(ReplaceRuns(RemoveQuotes(ToLowerCase(n)), FALSE))

slugify(n) ==
    StripHyphens(ReplaceRuns(RemoveQuotes(ToLowerCase(n)), FALSE))

-----------------------------------------------------------------------------
(* Specification of slugify alone: every string over SlugAlphabet of      *)
(* length at most MaxLen is given to slugify, and the result is given to  *)
(* it again.                                                               *)

MaxLen == 4
SlugAlphabet == {"A", "b", "7", "-", " ", "'"}

RECURSIVE StringsUpTo(_)
StringsUpTo(n) ==
    IF n = 0 THEN {<<>>}
    ELSE LET shorter == StringsUpTo(n - 1)
         IN  shorter \cup { Append(s, c) : s \in shorter, c \in SlugAlphabet }

InitSlugify ==
    /\ pc = "slugify"
    /\ name \in StringsUpTo(MaxLen)
    /\ slug = Unset
    /\ fullRotation = Unset /\ eventTypes = Unset /\ remoteEventTypes = Unset
    /\ result = Unset /\ next = Unset
    /\ RunIdle

\* slug = slugify(name)
CallSlugify ==
    /\ pc = "slugify"
    /\ slug' = slugify(name)
    /\ pc' = "slugified"
    /\ UNCHANGED <<name, fullRotation, eventTypes, remoteEventTypes,
                   result, next, runVars>>

\* The returned slug is normalised once more.
CallSlugifyAgain ==
    /\ pc = "slugified"
    /\ name' = slug
    /\ slug' = slugify(slug)
    /\ pc' = "reslugified"
    /\ UNCHANGED <<fullRotation, eventTypes, remoteEventTypes,
                   result, next, runVars>>

NextSlugify == CallSlugify \/ CallSlugifyAgain

SpecSlugify == InitSlugify /\ [][NextSlugify]_vars

\* The shape the result is claimed to have.
WellFormedSlug(s) ==
    /\ \A i \in DOMAIN s : s[i] \in LowerLetters \cup Digits \cup {"-"}
    /\ s # <<>> => s[1] # "-" /\ s[Len(s)] # "-"
    /\ \A i \in 1..(Len(s) - 1) : ~(s[i] = "-" /\ s[i + 1] = "-")

\* C7: slugify is total and idempotent: whenever it has returned, its result
\* is a string over [a-z0-9-] with no leading, trailing or doubled hyphen,
\* and slugifying that result again returns it unchanged.
C7_SlugifyIdempotent ==
    /\ pc = "slugified" => WellFormedSlug(slug)
    /\ pc = "reslugified" => slug = name /\ WellFormedSlug(slug)

\* A name with quotes, capitals, spaces and hyphens was slugified to a
\* non-empty slug that differs from it, and slugified again.
C7_Witness ==
    /\ pc = "reslugified"
    /\ slug = <<"a", "-", "b", "7">>

-----------------------------------------------------------------------------
(* JavaScript values and property lookup                                   *)

EmptyObject == [k \in {} |-> Unset]

\* A value as JSON.parse produces it: a string (s, its characters), null, an
\* array of strings (items) or an object (m, its properties).
Str(s) == [t |-> "string", s |-> s, items |-> <<>>, m |-> EmptyObject]
Null == [t |-> "null", s |-> <<>>, items |-> <<>>, m |-> EmptyObject]
Arr(items) == [t |-> "array", s |-> <<>>, items |-> items, m |-> EmptyObject]
Obj(m) == [t |-> "object", s |-> <<>>, items |-> <<>>, m |-> m]
Undefined == [t |-> "undefined", s |-> <<>>, items |-> <<>>, m |-> EmptyObject]

\* An hour: the number int + frac/10, or a value that is not a number.
Num(i, f) == [t |-> "number", int |-> i, frac |-> f]
NotNum(tag) == [t |-> tag, int |-> 0, frac |-> 0]

typeof(v) == IF v.t \in {"null", "array", "object"} THEN "object" ELSE v.t

\* ToBoolean(v) is false: undefined, null and the empty string (arrays and
\* objects are truthy).
Falsy(v) == v.t \in {"undefined", "null"} \/ (v.t = "string" /\ v.s = <<>>)

\* Array.prototype.join(",")
RECURSIVE Join(_)
Join(items) ==
    IF items = <<>> THEN <<>>
    ELSE IF Len(items) = 1 THEN items[1]
    ELSE items[1] \o <<",">> \o Join(Tail(items))

\* String(v)
String(v) ==
    CASE v.t = "string" -> v.s
      [] v.t = "null" -> <<"n", "u", "l", "l">>
      [] v.t = "undefined" -> <<"u","n","d","e","f","i","n","e","d">>
      [] v.t = "array" -> Join(v.items)
      [] v.t = "object" -> <<"[","o","b","j","e","c","t"," ","O","b","j","e","c","t","]">>

\* Number.prototype.toString of a non-negative integer.
RECURSIVE IntToString(_)
IntToString(n) ==
    IF n < 10 THEN <<DigitSeq[n + 1]>>
    ELSE IntToString(n \div 10) \o <<DigitSeq[(n % 10) + 1]>>

\* hour.toString() of the number h.int + h.frac/10.
NumberToString(h) ==
    IF h.frac = 0 THEN IntToString(h.int)
    ELSE IntToString(h.int) \o <<".">> \o IntToString(h.frac)

\* Names every plain object inherits from Object.prototype that consist of
\* letters only.
ObjectPrototype ==
    { <<"c","o","n","s","t","r","u","c","t","o","r">>,
      <<"t","o","S","t","r","i","n","g">>,
      <<"v","a","l","u","e","O","f">>,
      <<"h","a","s","O","w","n","P","r","o","p","e","r","t","y">>,
      <<"i","s","P","r","o","t","o","t","y","p","e","O","f">>,
      <<"t","o","L","o","c","a","l","e","S","t","r","i","n","g">>,
      <<"p","r","o","p","e","r","t","y","I","s","E","n","u","m","e","r","a","b","l","e">> }

\* obj[key] on a plain object: its own property, else the function inherited
\* from Object.prototype, else undefined.
Lookup(obj, key) ==
    IF key \in DOMAIN obj THEN "own"
    ELSE IF key \in ObjectPrototype THEN "inherited"
    ELSE "undefined"

-----------------------------------------------------------------------------
(* buildSchedule                                                           *)

prefixToMapId ==
    ( <<"d","a","m">> :> "dam-battleground" ) @@
    ( <<"b","u","r","i","e","d","C","i","t","y">> :> "buried-city" ) @@
    ( <<"s","p","a","c","e","p","o","r","t">> :> "the-spaceport" ) @@
    ( <<"b","l","u","e","G","a","t","e">> :> "blue-gate" ) @@
    ( <<"s","t","e","l","l","a","M","o","n","t","i","s">> :> "stella-montis" )

Major == <<"M","a","j","o","r">>
Minor == <<"M","i","n","o","r">>
major == <<"m","a","j","o","r">>
minor == <<"m","i","n","o","r">>

\* A seed that forgets the last map of the table.
SeedScheduleDropsMap ==
    [mapId \in Range(prefixToMapId) \ {"stella-montis"} |->
        (major :> EmptyObject) @@ (minor :> EmptyObject)]

\* Object.values(prefixToMapId).reduce(...): every map with empty buckets.
SeedSchedule ==
    [mapId \in Range(prefixToMapId) |->
        (major :> EmptyObject) @@ (minor :> EmptyObject)]

\* /^([a-zA-Z]+)(Minor|Major)$/.exec(key)
MatchKey(key) ==
    LET n == Len(key)
        suffix == IF n > 5 THEN SubSeq(key, n - 4, n) ELSE <<>>
        prefix == IF n > 5 THEN SubSeq(key, 1, n - 5) ELSE <<>>
    IN  IF /\ n > 5
           /\ suffix \in {Minor, Major}
           /\ \A i \in DOMAIN prefix : prefix[i] \in LowerLetters \cup UpperLetters
        THEN [matched |-> TRUE, prefix |-> prefix, tierRaw |-> suffix]
        ELSE [matched |-> FALSE, prefix |-> <<>>, tierRaw |-> <<>>]

\* typeof rawName === "string" ? rawName.trim() : String(rawName || "")
EventName(rawName) ==
    IF typeof(rawName) = "string" THEN Trim(rawName.s)
    ELSE IF Falsy(rawName) THEN <<>>
    ELSE String(rawName)

\* !eventName || eventName.toLowerCase() === "none"
NoEvent(eventName) ==
    eventName = <<>> \/ ToLowerCase(eventName) = <<"n","o","n","e">>

\* An assignment that keeps the value a slot already has.
StoreSlotFirstWins(schedule, mapId, tier, hourKey, s) ==
    IF hourKey \in DOMAIN schedule[mapId][tier] THEN schedule
    ELSE [schedule EXCEPT ![mapId][tier] = (hourKey :> s) @@ @]

\* schedule[mapId][tier][hour.toString()] = slug
StoreSlot(schedule, mapId, tier, hourKey, s) ==
    [schedule EXCEPT ![mapId][tier] = (hourKey :> s) @@ @]

\* Completions of a statement: normal with the schedule so far, or a throw.
Normal(schedule) == [kind |-> "normal", error |-> "none", schedule |-> schedule]
Throw(e) == [kind |-> "throw", error |-> e, schedule |-> EmptyObject]

\* The body of the inner loop for one [key, rawName] pair of an entry whose
\* hour is a number.
VisitField(schedule, hour, key, rawName, catalog) ==
    LET match == MatchKey(key)
        mapKind == Lookup(prefixToMapId, match.prefix)
        tier == ToLowerCase(match.tierRaw)
        eventName == EventName(rawName)
        s == slugify(eventName)
    IN  IF ~match.matched THEN Normal(schedule)
        ELSE IF mapKind = "undefined" THEN Throw("unexpected map prefix")
        ELSE IF NoEvent(eventName) THEN Normal(schedule)
        ELSE IF Lookup(catalog, s) = "undefined"
             THEN Throw("missing from eventTypes")
        ELSE IF mapKind = "inherited"
             \* mapId is a function; schedule[mapId] is undefined
             THEN Throw("TypeError")
        ELSE Normal(StoreSlot(schedule, prefixToMapId[match.prefix], tier,
                              NumberToString(hour), s))

\* for (const [key, rawName] of Object.entries(entry)), from field i on; the
\* "hour" property itself is skipped and is not among entry.fields.
RECURSIVE VisitFields(_, _, _, _)
VisitFields(schedule, entry, i, catalog) ==
    IF i > Len(entry.fields) THEN Normal(schedule)
    ELSE LET c == VisitField(schedule, entry.hour, entry.fields[i].key,
                             entry.fields[i].value, catalog)
         IN  IF c.kind = "throw" THEN c
             ELSE VisitFields(c.schedule, entry, i + 1, catalog)

\* typeof hour !== "number"
SkipsEntry(entry) == typeof(entry.hour) # "number"

\* for (const entry of fullRotation), from entry i on.
RECURSIVE VisitEntries(_, _, _, _)
VisitEntries(schedule, rotation, i, catalog) ==
    IF i > Len(rotation) THEN Normal(schedule)
    ELSE IF SkipsEntry(rotation[i])
         THEN VisitEntries(schedule, rotation, i + 1, catalog)
    ELSE LET c == VisitFields(schedule, rotation[i], 1, catalog)
         IN  IF c.kind = "throw" THEN c
             ELSE VisitEntries(c.schedule, rotation, i + 1, catalog)

buildSchedule(rotation, catalog) ==
    VisitEntries(SeedSchedule, rotation, 1, catalog)

-----------------------------------------------------------------------------
(* Specification of buildSchedule alone: it is called on every rotation   *)
(* of at most MaxEntries entries drawn from Entries, with each catalog of *)
(* Catalogs.                                                               *)

MaxEntries == 2

damMajor == <<"d","a","m">> \o Major
damMinor == <<"d","a","m">> \o Minor
buriedCityMinor == <<"b","u","r","i","e","d","C","i","t","y">> \o Minor
unknownZoneMajor == <<"u","n","k","n","o","w","n","Z","o","n","e">> \o Major
constructorMajor == <<"c","o","n","s","t","r","u","c","t","o","r">> \o Major
notes == <<"n","o","t","e","s">>

Ambush == <<"A","m","b","u","s","h">>
NightRaid == <<"N","i","g","h","t"," ","R","a","i","d">>
Storm == <<"S","t","o","r","m">>
None == <<"N","o","n","e">>
PaddedNone == <<" ","n","o","n","e"," ">>
Constructor == <<"c","o","n","s","t","r","u","c","t","o","r">>

\* Values a field of the remote payload may carry.
Values ==
    { Str(Ambush), Str(NightRaid), Str(Storm), Str(None), Str(<<>>),
      Str(Constructor), Null, Arr(<<PaddedNone>>) }

Field(k, v) == [key |-> k, value |-> v]

\* The field lists of an entry: one field of the first map with any value,
\* a field of another map, fields whose prefix is not in the table, a field
\* that is no rotation field, and two fields of one map.
FieldLists ==
    { <<Field(damMajor, v)>> : v \in Values }
    \cup { <<Field(buriedCityMinor, Str(NightRaid))>>,
           <<Field(unknownZoneMajor, Str(None))>>,
           <<Field(constructorMajor, Str(None))>>,
           <<Field(constructorMajor, Str(Ambush))>>,
           <<Field(notes, Str(Storm))>>,
           <<Field(damMajor, Str(Ambush)), Field(damMinor, Str(NightRaid))>> }

\* The hours of an entry: integers and a non-integral number, or a string
\* or no hour at all.
NumberHours == { Num(1, 0), Num(12, 0), Num(1, 5) }
OtherHours == { NotNum("string"), NotNum("undefined") }
Hours == NumberHours \cup OtherHours

\* Entries with a number as hour carry any field list; entries with another
\* hour carry a field that would write a slot or one that would throw.
Entries ==
    { [hour |-> h, fields |-> f] : h \in NumberHours, f \in FieldLists }
    \cup { [hour |-> h, fields |-> <<Field(k, Str(Ambush))>>] :
             h \in OtherHours, k \in {damMajor, unknownZoneMajor} }

RECURSIVE RotationsUpTo(_)
RotationsUpTo(n) ==
    IF n = 0 THEN {<<>>}
    ELSE LET shorter == RotationsUpTo(n - 1)
         IN  shorter \cup { Append(r, e) : r \in shorter, e \in Entries }

\* An event-type definition of the local catalog: an object with metadata.
Definition(icon) == "icon" :> Str(<<icon>>)

Catalogs ==
    { (slugify(Ambush) :> Definition("a")) @@ (slugify(NightRaid) :> Definition("n")),
      (slugify(Ambush) :> Definition("a")) @@ (slugify(None) :> Definition("x")) }

InitBuild ==
    /\ pc = "build"
    /\ fullRotation \in RotationsUpTo(MaxEntries)
    /\ eventTypes \in Catalogs
    /\ result = Unset
    /\ name = Unset /\ slug = Unset /\ remoteEventTypes = Unset
    /\ next = Unset
    /\ RunIdle

\* result = buildSchedule(fullRotation, eventTypes), or the error it throws
CallBuildSchedule ==
    /\ pc = "build"
    /\ result' = buildSchedule(fullRotation, eventTypes)
    /\ pc' = "built"
    /\ UNCHANGED <<name, slug, fullRotation, eventTypes, remoteEventTypes,
                   next, runVars>>

NextBuild == CallBuildSchedule

SpecBuild == InitBuild /\ [][NextBuild]_vars

Returned == pc = "built" /\ result.kind = "normal"
Threw(e) == pc = "built" /\ result.kind = "throw" /\ result.error = e

\* The five location identifiers and the two tiers, as the claims name them.
Locations ==
    {"dam-battleground", "buried-city", "the-spaceport", "blue-gate", "stella-montis"}
Tiers == {major, minor}

\* C1: whenever buildSchedule returns, the schedule has exactly the five
\* locations as keys and each has exactly a major and a minor bucket.
C1_AllLocationsSeeded ==
    Returned =>
        /\ DOMAIN result.schedule = Locations
        /\ \A L \in Locations : DOMAIN result.schedule[L] = Tiers

\* buildSchedule returned on a rotation of two entries that wrote slots.
C1_Witness ==
    /\ Returned
    /\ Len(fullRotation) = 2
    /\ DOMAIN result.schedule["dam-battleground"][major] # {}
    /\ DOMAIN result.schedule["buried-city"][minor] # {}
    /\ DOMAIN result.schedule["stella-montis"][major] = {}

-----------------------------------------------------------------------------
(* Claims about buildSchedule                                              *)

IsNumber(h) == h.t = "number"
IsInteger(h) == h.t = "number" /\ h.frac = 0

\* The fields of the rotation, as <<entry index, field index>>.
FieldsOf(rotation) ==
    UNION { { <<i, j>> : j \in DOMAIN rotation[i].fields } : i \in DOMAIN rotation }

\* A field whose name has the shape <letters><Minor|Major>.
Patterned(f) == MatchKey(f.key).matched
KnownPrefix(f) == MatchKey(f.key).prefix \in DOMAIN prefixToMapId

\* C2: if an entry with an integer hour has a patterned field whose prefix is
\* not one of the five of the table, buildSchedule fails with the
\* unknown-prefix error, whatever the value of the field.
C2_UnknownPrefixThrows ==
    ( /\ pc = "built"
      /\ \E ij \in FieldsOf(fullRotation) :
            LET e == fullRotation[ij[1]]
            IN  /\ IsInteger(e.hour)
                /\ Patterned(e.fields[ij[2]])
                /\ ~KnownPrefix(e.fields[ij[2]]) )
    => Threw("unexpected map prefix")

StoredSlugs(schedule) ==
    { schedule[L][T][k] :
        <<L, T, k>> \in { x \in (DOMAIN schedule) \X Tiers \X
                                { NumberToString(h) : h \in Hours } :
                          x[3] \in DOMAIN schedule[x[1]][x[2]] } }

\* C3: every event identifier stored in a slot of a returned schedule is a
\* key of the catalog given to buildSchedule.
C3_StoredSlugsInCatalog ==
    Returned => StoredSlugs(result.schedule) \subseteq DOMAIN eventTypes

\* The string a field's value stands for in the code: lines 89-90.
GivesEvent(v) == ~NoEvent(EventName(v))

FieldKey(L, T) ==
    (CHOOSE p \in DOMAIN prefixToMapId : prefixToMapId[p] = L)
        \o (IF T = major THEN Major ELSE Minor)

\* The entries that have hour h and name an event for location L, tier T.
Givers(L, T, h) ==
    { i \in DOMAIN fullRotation :
        /\ fullRotation[i].hour = h
        /\ \E j \in DOMAIN fullRotation[i].fields :
              /\ fullRotation[i].fields[j].key = FieldKey(L, T)
              /\ GivesEvent(fullRotation[i].fields[j].value) }

Last(S) == CHOOSE i \in S : \A k \in S : k <= i

GivenBy(i, L, T) ==
    LET fs == fullRotation[i].fields
        j == CHOOSE k \in DOMAIN fs : fs[k].key = FieldKey(L, T)
    IN  fs[j].value

\* C8: when buildSchedule returns, each slot [L][T][string of h] holds the
\* slug of the name given by the last entry with hour h that names an event
\* for L and T, and is absent when no entry does.
C8_LastWriteWins ==
    Returned =>
        \A L \in Locations, T \in Tiers, h \in { x \in Hours : IsNumber(x) } :
            LET g == Givers(L, T, h)
                bucket == result.schedule[L][T]
                k == NumberToString(h)
            IN  IF g = {} THEN k \notin DOMAIN bucket
                ELSE /\ k \in DOMAIN bucket
                     /\ bucket[k] = slugify(EventName(GivenBy(Last(g), L, T)))

\* Two entries name different events for the same slot, and buildSchedule
\* returned with the slot holding the later one.
C8_Witness ==
    /\ Returned
    /\ Len(fullRotation) = 2
    /\ fullRotation[1] = [hour |-> Num(1, 0), fields |-> <<Field(damMajor, Str(Ambush))>>]
    /\ fullRotation[2] = [hour |-> Num(1, 0), fields |-> <<Field(damMajor, Str(NightRaid))>>]
    /\ result.schedule["dam-battleground"][major] = (<<"1">> :> slugify(NightRaid))

IsIntegerString(k) == k # <<>> /\ \A i \in DOMAIN k : k[i] \in Digits

WithoutNonIntegerHours(rotation) ==
    SelectSeq(rotation, LAMBDA e : IsInteger(e.hour))

\* C9: an entry whose hour is not an integer is skipped entirely: the outcome
\* of buildSchedule is the outcome on the rotation without such entries, and
\* every hour key of a returned schedule is the string of an integer.
C9_NonIntegerHourSkipped ==
    pc = "built" =>
        /\ result = buildSchedule(WithoutNonIntegerHours(fullRotation), eventTypes)
        /\ result.kind = "normal" =>
              \A L \in Locations, T \in Tiers :
                  \A k \in DOMAIN result.schedule[L][T] : IsIntegerString(k)

\* The value of a field coerced to a trimmed string, missing or falsy values
\* becoming empty.
TrimmedString(v) == Trim(IF Falsy(v) THEN <<>> ELSE String(v))

NoneField(f) ==
    /\ Patterned(f) /\ KnownPrefix(f)
    /\ NoEvent(TrimmedString(f.value))

WithoutNoneFields(rotation) ==
    [i \in DOMAIN rotation |->
        [rotation[i] EXCEPT !.fields = SelectSeq(@, LAMBDA f : ~NoneField(f))]]

\* C10: a field with a recognized prefix whose trimmed string value is empty
\* or "none" in any letter case is skipped: the outcome of buildSchedule is
\* the outcome on the rotation without such fields.
C10_NoneFieldSkipped ==
    pc = "built" =>
        result = buildSchedule(WithoutNoneFields(fullRotation), eventTypes)

-----------------------------------------------------------------------------
(* mergeEventLocalizations                                                 *)

\* remoteEventTypes?.[slug]?.localizations: the property of the remote
\* entry, undefined when there is no entry (a function inherited from
\* Object.prototype has no such property) or the entry has none.
RemoteLocalizations(remote, s) ==
    IF Lookup(remote, s) = "own" /\ "localizations" \in DOMAIN remote[s]
    THEN remote[s]["localizations"]
    ELSE Undefined

\* A guard that forgets the typeof test.
ReplacesAnyTruthy(localizations) == ~Falsy(localizations)

\* !( !localizations || typeof localizations !== "object" )
Replaces(localizations) ==
    ~(Falsy(localizations) \/ typeof(localizations) # "object")

\* A merge that keeps the languages the remote mapping lacks.
MergeEntryAdditive(config, localizations) ==
    [f \in DOMAIN config \cup {"localizations"} |->
        IF f # "localizations" THEN config[f]
        ELSE IF "localizations" \in DOMAIN config
             THEN Obj(localizations.m @@ config[f].m)
             ELSE localizations]

\* { ...config, localizations }
MergeEntry(config, localizations) ==
    [f \in DOMAIN config \cup {"localizations"} |->
        IF f = "localizations" THEN localizations ELSE config[f]]

\* for (const [slug, config] of Object.entries(eventTypes)), over the slugs
\* still to visit; each visited slug is independent of the others.
RECURSIVE MergeLoop(_, _, _, _)
MergeLoop(acc, todo, local, remote) ==
    IF todo = {} THEN acc
    ELSE LET s == CHOOSE x \in todo : TRUE
             localizations == RemoteLocalizations(remote, s)
         IN  IF ~Replaces(localizations)
             THEN MergeLoop(acc, todo \ {s}, local, remote)
             ELSE MergeLoop((s :> MergeEntry(local[s], localizations)) @@ acc,
                            todo \ {s}, local, remote)

\* const next = { ...eventTypes }; the loop; return next.  An undefined
\* argument is the empty object.
mergeEventLocalizations(local, remote) ==
    MergeLoop(local, DOMAIN local, local, remote)

-----------------------------------------------------------------------------
(* Specification of mergeEventLocalizations alone: it is called on every  *)
(* local catalog of LocalCatalogs with every remote one of                *)
(* RemoteCatalogs.                                                         *)

Text(s) == Str(<<s>>)

\* Local definitions: metadata, with or without localizations.
LocalDefinitions ==
    { "icon" :> Text("i"),
      ("icon" :> Text("i")) @@ ("localizations" :> Obj("en" :> Text("Old"))),
      ("icon" :> Text("i")) @@
          ("localizations" :> Obj(("en" :> Text("Old")) @@ ("de" :> Text("Alt")))) }

\* Remote definitions: metadata of their own and a localizations property
\* that is absent, null, a string, an array or a mapping.
RemoteDefinitions ==
    { "icon" :> Text("r") }
    \cup { ("icon" :> Text("r")) @@ ("localizations" :> v) :
             v \in { Null, Text("x"), Arr(<<>>),
                     Obj("en" :> Text("New")),
                     Obj("fr" :> Text("Neuf")) } }

ObjectsOver(keys, definitions) ==
    UNION { [K -> definitions] : K \in SUBSET keys }

LocalCatalogs == ObjectsOver({slugify(Ambush), Constructor}, LocalDefinitions)
RemoteCatalogs ==
    ObjectsOver({slugify(Ambush), slugify(Storm)}, RemoteDefinitions)

InitMerge ==
    /\ pc = "merge"
    /\ eventTypes \in LocalCatalogs
    /\ remoteEventTypes \in RemoteCatalogs
    /\ next = Unset
    /\ name = Unset /\ slug = Unset /\ fullRotation = Unset
    /\ result = Unset
    /\ RunIdle

\* next = mergeEventLocalizations(eventTypes, remoteEventTypes)
CallMergeEventLocalizations ==
    /\ pc = "merge"
    /\ next' = mergeEventLocalizations(eventTypes, remoteEventTypes)
    /\ pc' = "merged"
    /\ UNCHANGED <<name, slug, fullRotation, eventTypes, remoteEventTypes,
                   result, runVars>>

NextMerge == CallMergeEventLocalizations

SpecMerge == InitMerge /\ [][NextMerge]_vars

\* A structured mapping: a non-null value of type object.
IsStructured(v) == v.t \in {"object", "array"}

\* The remote entry of slug s carries a localizations mapping.
CarriesMapping(s) ==
    /\ s \in DOMAIN remoteEventTypes
    /\ "localizations" \in DOMAIN remoteEventTypes[s]
    /\ IsStructured(remoteEventTypes[s]["localizations"])

\* C5: for every local identifier whose remote entry carries a localizations
\* mapping, the merged entry's localizations are the remote mapping exactly
\* and every other field is the local entry's.
C5_LocalizationsReplacedWholesale ==
    pc = "merged" =>
        \A s \in DOMAIN eventTypes :
            CarriesMapping(s) =>
                /\ s \in DOMAIN next
                /\ DOMAIN next[s] = DOMAIN eventTypes[s] \cup {"localizations"}
                /\ next[s]["localizations"] = remoteEventTypes[s]["localizations"]
                /\ \A f \in DOMAIN eventTypes[s] \ {"localizations"} :
                      next[s][f] = eventTypes[s][f]

\* A local entry with two languages was merged with a remote mapping that
\* has one language only.
C5_Witness ==
    /\ pc = "merged"
    /\ slugify(Ambush) \in DOMAIN eventTypes
    /\ CarriesMapping(slugify(Ambush))
    /\ eventTypes[slugify(Ambush)] =
          ("icon" :> Text("i")) @@
          ("localizations" :> Obj(("en" :> Text("Old")) @@ ("de" :> Text("Alt"))))
    /\ next[slugify(Ambush)] =
          ("icon" :> Text("i")) @@ ("localizations" :> Obj("en" :> Text("New")))

-----------------------------------------------------------------------------
(* run: fetch, validate, read, build, merge, write; and the catch handler *)
(* of the top level.  The remote payload and the local file are chosen    *)
(* when they are read.                                                     *)

RunRotations == RotationsUpTo(1)
RunRemoteCatalogs == ObjectsOver({slugify(Ambush)}, RemoteDefinitions)
RunLocalCatalogs ==
    Catalogs \cup ObjectsOver({slugify(Ambush)}, LocalDefinitions)

Init ==
    /\ pc = "fetch"
    /\ name = Unset /\ slug = Unset
    /\ fullRotation = Unset /\ eventTypes = Unset /\ remoteEventTypes = Unset
    /\ result = Unset /\ next = Unset
    /\ RunIdle

\* The promise of run() rejects with e: the catch handler runs next.
Reject(e) ==
    /\ error' = e
    /\ pc' = "catch"

\* const response = await fetch(API_URL); if (!response.ok) throw
Fetch ==
    /\ pc = "fetch"
    /\ \E r \in {"rejected", "not ok", "ok"} :
          /\ response' = r
          /\ IF r = "ok" THEN pc' = "json" /\ error' = error
             ELSE Reject("transport")
    /\ UNCHANGED <<name, slug, fullRotation, eventTypes, remoteEventTypes,
                   result, next, payload, writes, exitCode>>

\* const payload = await response.json();
\* if (!Array.isArray(payload.fullRotation)) throw
ReadPayload ==
    /\ pc = "json"
    /\ \/ /\ payload' = "fullRotation is an array"
          /\ fullRotation' \in RunRotations
          /\ remoteEventTypes' \in RunRemoteCatalogs
          /\ pc' = "read"
          /\ error' = error
       \/ /\ payload' = "fullRotation is no array"
          /\ Reject("schema")
          /\ UNCHANGED <<fullRotation, remoteEventTypes>>
       \/ /\ payload' = "no JSON"
          /\ Reject("json")
          /\ UNCHANGED <<fullRotation, remoteEventTypes>>
    /\ UNCHANGED <<name, slug, eventTypes, result, next, response, writes, exitCode>>

\* const mapEvents = JSON.parse(await readFile(targetPath, "utf8"))
ReadTarget ==
    /\ pc = "read"
    /\ \/ /\ eventTypes' \in RunLocalCatalogs
          /\ pc' = "build"
          /\ error' = error
       \/ /\ Reject("read")
          /\ UNCHANGED eventTypes
    /\ UNCHANGED <<name, slug, fullRotation, remoteEventTypes, result, next,
                   response, payload, writes, exitCode>>

\* A call whose error is swallowed: run goes on to merge and write.
RunBuildScheduleSwallows ==
    /\ pc = "build"
    /\ result' = buildSchedule(fullRotation, eventTypes)
    /\ pc' = "merge"
    /\ UNCHANGED <<name, slug, fullRotation, eventTypes, remoteEventTypes,
                   next, runVars>>

\* const schedule = buildSchedule(payload.fullRotation, mapEvents.eventTypes)
RunBuildSchedule ==
    /\ pc = "build"
    /\ result' = buildSchedule(fullRotation, eventTypes)
    /\ IF result'.kind = "throw" THEN Reject(result'.error)
       ELSE pc' = "merge" /\ error' = error
    /\ UNCHANGED <<name, slug, fullRotation, eventTypes, remoteEventTypes,
                   next, response, payload, writes, exitCode>>

\* const eventTypes = mergeEventLocalizations(mapEvents.eventTypes,
\*                                            payload.eventTypes)
RunMerge ==
    /\ pc = "merge"
    /\ next' = mergeEventLocalizations(eventTypes, remoteEventTypes)
    /\ pc' = "write"
    /\ UNCHANGED <<name, slug, fullRotation, eventTypes, remoteEventTypes,
                   result, runVars>>

\* await writeFile(targetPath, ...): the file is written, or the call fails
\* with the file touched or not.
WriteTarget ==
    /\ pc = "write"
    /\ \/ /\ writes' = writes + 1
          /\ pc' = "log"
          /\ error' = error
       \/ /\ writes' \in {writes, writes + 1}
          /\ Reject("write")
    /\ UNCHANGED <<name, slug, fullRotation, eventTypes, remoteEventTypes,
                   result, next, response, payload, exitCode>>

\* console.log(...); run() resolves
LogSummary ==
    /\ pc = "log"
    /\ pc' = "done"
    /\ UNCHANGED <<name, slug, fullRotation, eventTypes, remoteEventTypes,
                   result, next, runVars>>

\* run().catch((error) => { console.error(error); process.exitCode = 1; })
CatchError ==
    /\ pc = "catch"
    /\ exitCode' = 1
    /\ pc' = "exited"
    /\ UNCHANGED <<name, slug, fullRotation, eventTypes, remoteEventTypes,
                   result, next, response, payload, error, writes>>

Next ==
    \/ Fetch
    \/ ReadPayload
    \/ ReadTarget
    \/ RunBuildSchedule
    \/ RunMerge
    \/ WriteTarget
    \/ LogSummary
    \/ CatchError

Spec == Init /\ [][Next]_vars

\* The fatal conditions the claim lists.
FatalConditions ==
    {"transport", "schema", "unexpected map prefix", "missing from eventTypes"}

====
